---- MODULE Spec2Model ----
(***************************************************************************)
(* Model of the MCP tool-server layer of agent_factory:                    *)
(*   src/mcp_tools/server.py     the worker's dispatch loop                *)
(*   src/mcp_tools/transport.py  StdioTransport and the JSON-RPC records   *)
(*   src/mcp_tools/manager.py    ToolServerManager                         *)
(*                                                                         *)
(* Three specifications share the variables:                               *)
(*   SpecLoop       one worker process whose stdin is fed arbitrary lines  *)
(*   SpecTransport  a caller driving one StdioTransport directly           *)
(*   Spec           a caller driving one ToolServerManager                 *)
(***************************************************************************)
EXTENDS Integers, Sequences, FiniteSets, TLC

VARIABLES
    procs,       \* child processes ever spawned, indexed by pid
    transports,  \* StdioTransport objects ever constructed, indexed by tid
    servers,     \* ToolServerManager._servers: server_id -> registration
    ctl,         \* the controller's position (idle, or blocked inside send)
    last,        \* the operation the controller last began, and how it ended
    nops         \* number of operations the controller has begun

vars == <<procs, transports, servers, ctl, last, nops>>

----------------------------------------------------------------------------
(* Bounds of the model *)

MaxLines == 3    \* lines fed to the stand-alone dispatch loop
MaxOps   == 4    \* operations the controller begins
MaxProcs == 3    \* child processes spawned
MaxCalls == 3    \* calls the two threads of SpecCalls begin

(* Program constants *)

StderrPrefix      == 500
ParseErrorCode    == -32700
InternalErrorCode == -32603

----------------------------------------------------------------------------
(* JSON values.  Every value is a record of the same shape so that any two *)
(* can be compared; t is the JSON type.                                    *)

Null     == [t |-> "null", n |-> 0, s |-> ""]
JInt(i)  == [t |-> "int",  n |-> i, s |-> ""]
JStr(x)  == [t |-> "str",  n |-> 0, s |-> x]
JOther   == [t |-> "list", n |-> 0, s |-> ""]

\* str(v) as it appears inside an f-string
Render(v) == IF v.t = "str" THEN v.s
             ELSE IF v.t = "int" THEN "<int>"
             ELSE IF v.t = "null" THEN "None" ELSE "<list>"

(* Results carried in a response: t is the shape, names the tool names of  *)
(* a tools/list or ping result, s a handler's payload.                     *)
NoValue          == [t |-> "null",        names |-> <<>>, s |-> ""]
Unencodable      == [t |-> "unencodable", names |-> <<>>, s |-> ""]
HandlerValue(x)  == [t |-> "value",       names |-> <<>>, s |-> x]
SchemaList(ns)   == [t |-> "schemas",     names |-> ns,   s |-> ""]
PingResult(ns)   == [t |-> "ping",        names |-> ns,   s |-> "ok"]

ErrNone          == [t |-> "null",  code |-> 0, message |-> <<>>]
ErrObj(c, m)     == [t |-> "error", code |-> c, message |-> m]

(* Parameters of a request: a dict with optional keys, or a non-dict.      *)
EmptyParams      == [t |-> "dict", keys |-> {}, name |-> Null, arguments |-> ""]
CallParams(n, a) == [t |-> "dict", keys |-> {"name", "arguments"},
                     name |-> n, arguments |-> a]
NonDictParams    == [t |-> "list", keys |-> {}, name |-> Null, arguments |-> ""]

----------------------------------------------------------------------------
(* Message model: transport.py *)

\* JsonRpcRequest(method, params, id)
JsonRpcRequest(m, p, i) == [method |-> m, params |-> p, id |-> i]

\* A line of text on a pipe towards the worker.  k is what json.loads makes
\* of it after strip(): "blank" (empty), "garbage" (JSONDecodeError),
\* "scalar" (valid JSON that is no object), "object".  keys are the keys of
\* the object.
BlankLine   == [k |-> "blank",   keys |-> {}, method |-> Null,
                params |-> EmptyParams, id |-> Null]
GarbageLine == [k |-> "garbage", keys |-> {}, method |-> Null,
                params |-> EmptyParams, id |-> Null]
ScalarLine  == [k |-> "scalar",  keys |-> {}, method |-> Null,
                params |-> EmptyParams, id |-> Null]
ObjectLine(ks, m, p, i) ==
    [k |-> "object", keys |-> ks,
     method |-> IF "method" \in ks THEN m ELSE Null,
     params |-> IF "params" \in ks THEN p ELSE EmptyParams,
     id     |-> IF "id" \in ks THEN i ELSE Null]

\* Variant of to_json: the "id" member left out of the object
to_json_NoId(req) ==
    ObjectLine({"jsonrpc", "method", "params"}, JStr(req.method), req.params, req.id)

\* JsonRpcRequest.to_json: one JSON object with the four keys
to_json(req) ==
    ObjectLine({"jsonrpc", "method", "params", "id"},
               JStr(req.method), req.params, req.id)

\* A response object on the wire: keys says which members are present.
WireResponse(ks, i, r, e) ==
    [keys |-> ks,
     id     |-> IF "id" \in ks THEN i ELSE Null,
     result |-> IF "result" \in ks THEN r ELSE NoValue,
     error  |-> IF "error" \in ks THEN e ELSE ErrNone]

\* JsonRpcResponse.from_json: parsed.get(...) gives None for a missing key
from_json(w) ==
    [id     |-> IF "id" \in w.keys THEN w.id ELSE Null,
     result |-> IF "result" \in w.keys THEN w.result ELSE NoValue,
     error  |-> IF "error" \in w.keys THEN w.error ELSE ErrNone]

\* Variant of is_error: no response counts as an error
is_error_Never(resp) == FALSE

\* JsonRpcResponse.is_error
is_error(resp) == resp.error # ErrNone

----------------------------------------------------------------------------
(* Worker side: server.py *)

\* What a launch command runs.  "echo" and "calc" are tool servers built on
\* StdioToolServer; "badschema" is one whose handler publishes a schema that
\* json.dumps cannot encode; "missing" names no executable.
Commands == {"echo", "calc", "badschema", "missing"}

\* StdioToolServer._handlers.keys() after the server's register() calls
HandlerNames(cmd) ==
    IF cmd = "echo" THEN <<"echo">>
    ELSE IF cmd = "calc" THEN <<"calculate", "convert_units">>
    ELSE IF cmd = "badschema" THEN <<"broken">>
    ELSE <<>>

\* [h.get_schema() for h in self._handlers.values()]
Schemas(cmd, names) ==
    IF cmd = "badschema" THEN Unencodable ELSE SchemaList(names)

\* What one invocation of ToolHandler.handle does
HandlerOutcomes == {"value", "none", "unencodable", "raise"}

HandlerErrMsg   == <<"handler failed">>
NotEncodableMsg == <<"Object is not JSON serializable">>
NoGetMsg        == <<"object has no attribute 'get'">>
UnhashableMsg   == <<"unhashable type">>
ParseErrMsg     == <<"Parse error: ", "Expecting value">>
UnknownMethodMsg(m)  == <<"Unknown method: ", Render(m)>>
\* Variant of UnknownToolMsg: the available names are not listed
UnknownToolMsg_NoList(n, h) == <<"Unknown tool: ", Render(n)>>

UnknownToolMsg(n, h) == <<"Unknown tool: ", Render(n), "Available: ">> \o h

Returned(v, c) == [raised |-> FALSE, result |-> v, message |-> <<>>, called |-> c]
Raised(m, c)   == [raised |-> TRUE, result |-> NoValue, message |-> m, called |-> c]

\* ToolHandler.handle(tool_params), abstracted to its outcome `out`
Handle(args, out) ==
    IF out = "value" THEN Returned(HandlerValue(args), TRUE)
    ELSE IF out = "none" THEN Returned(NoValue, TRUE)
    ELSE IF out = "unencodable" THEN Returned(Unencodable, TRUE)
    ELSE Raised(HandlerErrMsg, TRUE)

\* StdioToolServer._dispatch(method, params); names are the keys of
\* self._handlers
Dispatch(cmd, names, method, params, out) ==
    IF method = JStr("ping") THEN Returned(PingResult(names), FALSE)
    ELSE IF method = JStr("tools/list") THEN Returned(Schemas(cmd, names), FALSE)
    ELSE IF method = JStr("tools/call") THEN
        IF params.t # "dict" THEN Raised(NoGetMsg, FALSE)
        ELSE LET tool_name == IF "name" \in params.keys THEN params.name ELSE JStr("")
             IN  IF tool_name.t = "list" THEN Raised(UnhashableMsg, FALSE)
                 ELSE IF ~(tool_name.t = "str" /\
                           \E i \in 1..Len(names) : names[i] = tool_name.s)
                 THEN Raised(UnknownToolMsg(tool_name, names), FALSE)
                 ELSE Handle(params.arguments, out)
    ELSE Raised(UnknownMethodMsg(method), FALSE)

\* Variant of WriteError: the id of the request is not passed on
WriteError_NullId(request_id, code, message) ==
    <<WireResponse({"jsonrpc", "id", "error"}, Null, NoValue,
                   ErrObj(code, message))>>

\* StdioToolServer._write_error: the line it writes
WriteError(request_id, code, message) ==
    <<WireResponse({"jsonrpc", "id", "error"}, request_id, NoValue,
                   ErrObj(code, message))>>

\* Variant of WriteResult: the line is written piece by piece, the start of
\* a success line is on stdout when the encoder raises
WriteResult_PartialLine(request_id, result) ==
    IF result.t = "unencodable"
    THEN [raised |-> TRUE,
          lines |-> <<WireResponse({"jsonrpc", "id", "result"}, request_id,
                                   NoValue, ErrNone)>>]
    ELSE [raised |-> FALSE,
          lines |-> <<WireResponse({"jsonrpc", "id", "result"}, request_id,
                                   result, ErrNone)>>]

\* StdioToolServer._write_result: json.dumps raises before anything is
\* written when the result cannot be encoded
WriteResult(request_id, result) ==
    IF result.t = "unencodable"
    THEN [raised |-> TRUE, lines |-> <<>>]
    ELSE [raised |-> FALSE,
          lines |-> <<WireResponse({"jsonrpc", "id", "result"}, request_id,
                                   result, ErrNone)>>]

\* Variant of DispatchAndWrite: no except clause around the dispatch
DispatchAndWrite_NoCatch(cmd, names, request_id, method, params, out) ==
    LET d == Dispatch(cmd, names, method, params, out)
        w == WriteResult(request_id, d.result)
    IN  IF d.raised \/ w.raised
        THEN [lines |-> <<>>, exit |-> TRUE, called |-> d.called,
              hout |-> IF d.called THEN out ELSE "-"]
        ELSE [lines |-> w.lines, exit |-> FALSE, called |-> d.called,
              hout |-> IF d.called THEN out ELSE "-"]

\* The try block of run(): dispatch, write the result, or write the error
DispatchAndWrite(cmd, names, request_id, method, params, out) ==
    LET d == Dispatch(cmd, names, method, params, out)
        w == WriteResult(request_id, d.result)
    IN  IF d.raised
        THEN [lines |-> WriteError(request_id, InternalErrorCode, d.message),
              exit |-> FALSE, called |-> d.called, hout |-> IF d.called THEN out ELSE "-"]
        ELSE IF w.raised
        THEN \* what _write_result wrote before it raised, then the error line
             [lines |-> w.lines \o
                        WriteError(request_id, InternalErrorCode, NotEncodableMsg),
              exit |-> FALSE, called |-> d.called, hout |-> IF d.called THEN out ELSE "-"]
        ELSE [lines |-> w.lines,
              exit |-> FALSE, called |-> d.called, hout |-> IF d.called THEN out ELSE "-"]

\* Variant of ParseFailure: json.loads outside any try, the error leaves the loop
ParseFailure_Uncaught ==
    [lines |-> <<>>, exit |-> TRUE, called |-> FALSE, hout |-> "-"]

\* run(): json.loads raised JSONDecodeError
ParseFailure ==
    [lines |-> WriteError(Null, ParseErrorCode, ParseErrMsg),
     exit |-> FALSE, called |-> FALSE, hout |-> "-"]

\* The body of the loop of run() for one line read from stdin: the lines it
\* writes, and whether an exception leaves the loop
RunLine(cmd, names, line, out) ==
    IF line.k = "blank"
    THEN [lines |-> <<>>, exit |-> FALSE, called |-> FALSE, hout |-> "-"]
    ELSE IF line.k = "garbage"
    THEN ParseFailure
    ELSE IF line.k # "object"
    THEN \* request.get on a value that is no dict: AttributeError, uncaught
         [lines |-> <<>>, exit |-> TRUE, called |-> FALSE, hout |-> "-"]
    ELSE DispatchAndWrite(cmd, names, line.id,
                          IF "method" \in line.keys THEN line.method ELSE JStr(""),
                          IF "params" \in line.keys THEN line.params ELSE EmptyParams,
                          out)

\* os.environ of the controller, as a set of <<name, value>> pairs
ControllerEnv == {<<"PATH", "/usr/bin">>, <<"HOME", "/root">>}

\* The env argument of register_server / StdioTransport: None, or a mapping
NoEnv    == [given |-> FALSE, vars |-> {}]
Override == [given |-> TRUE,  vars |-> {<<"HOME", "/tmp">>}]
Envs     == {NoEnv, Override}

\* The environment Popen(..., env=env) gives the child
PopenEnv(env) == IF env.given THEN env.vars ELSE ControllerEnv

\* A child process just spawned by Popen(command, env=env)
NewProc(cmd, env) ==
    [cmd |-> cmd, env |-> PopenEnv(env), state |-> "running", reason |-> "none",
     handlers |-> HandlerNames(cmd),   \* StdioToolServer._handlers
     stdin |-> <<>>, stdinClosed |-> FALSE, stdout |-> <<>>,
     pc |-> "read", cur |-> BlankLine,
     readLog |-> <<>>,   \* every line the loop has read
     done |-> <<>>,      \* per handled line: was handle invoked, how did it end
     outLog |-> <<>>,    \* every line the loop has written
     outFor |-> <<>>,    \* per written line: index in readLog of its request
     sent |-> <<>>,      \* requests send() wrote to this child
     recv |-> <<>>,      \* responses send() returned from this child
     stderr |-> 0]       \* characters written to the standard error

\* run(): `for line in sys.stdin` takes the next line, or ends at end of file
ProcRead(pr) ==
    IF pr.stdin # <<>>
    THEN [pr EXCEPT !.cur = Head(pr.stdin), !.stdin = Tail(pr.stdin),
                    !.readLog = Append(pr.readLog, Head(pr.stdin)),
                    !.pc = "handle"]
    ELSE [pr EXCEPT !.state = "exited", !.reason = "eof"]

\* run(): lines 109-127 for the line just read
ProcHandle(pr, out) ==
    LET r == RunLine(pr.cmd, pr.handlers, pr.cur, out)
        k == Len(pr.readLog)
    IN  [pr EXCEPT !.stdout = pr.stdout \o r.lines,
                   !.outLog = pr.outLog \o r.lines,
                   !.outFor = pr.outFor \o [i \in 1..Len(r.lines) |-> k],
                   !.done   = Append(pr.done, [called |-> r.called, hout |-> r.hout]),
                   !.pc     = IF r.exit THEN "crashed" ELSE "read",
                   !.state  = IF r.exit THEN "exited" ELSE pr.state,
                   !.reason = IF r.exit THEN "uncaught" ELSE pr.reason]

LoopRead(p) ==
    /\ procs[p].state = "running" /\ procs[p].pc = "read"
    /\ procs[p].stdin # <<>> \/ procs[p].stdinClosed
    /\ procs' = [procs EXCEPT ![p] = ProcRead(procs[p])]
    /\ UNCHANGED <<transports, servers, ctl, last, nops>>

LoopHandle(p) ==
    /\ procs[p].state = "running" /\ procs[p].pc = "handle"
    /\ \E out \in HandlerOutcomes :
          procs' = [procs EXCEPT ![p] = ProcHandle(procs[p], out)]
    /\ UNCHANGED <<transports, servers, ctl, last, nops>>

----------------------------------------------------------------------------
(* Controller side: StdioTransport, transport.py *)

NoResp == [id |-> Null, result |-> NoValue, error |-> ErrNone]
NoReq  == JsonRpcRequest("", EmptyParams, Null)

\* The controller is idle, or blocked in send()'s readline on transport tid
\* on behalf of operation op (of server sid); todo and results are
\* start_all's loop state.
CtlIdle == [pc |-> "idle", op |-> "", sid |-> "", tid |-> 0, req |-> NoReq,
            todo |-> <<>>, results |-> <<>>]
CtlReading(op, sid, tid, req, todo, results) ==
    [pc |-> "reading", op |-> op, sid |-> sid, tid |-> tid, req |-> req,
     todo |-> todo, results |-> results]

\* The child's standard error is kept as the number of characters written
\* to it, a part of it as the positions from (included) to (excluded).
NoStderr == [from |-> 0, to |-> 0]

\* How the last operation ended: outcome is "pending" while it is blocked,
\* "ok" when it returned, and otherwise the failure it raised; arg is the
\* command register_server() was given and what stop() found its server to
\* be ("attached", "detached" or "unknown"), stderr the part of the child's
\* standard error quoted in send()'s "process died" message.
LastNone == [op |-> "", sid |-> "", tid |-> 0, outcome |-> "", req |-> NoReq,
             resp |-> NoResp, value |-> NoValue, results |-> <<>>, arg |-> "",
             stderr |-> NoStderr]
Ended(op, sid, tid, outcome, req, resp, value) ==
    [op |-> op, sid |-> sid, tid |-> tid, outcome |-> outcome, req |-> req,
     resp |-> resp, value |-> value, results |-> <<>>, arg |-> "",
     stderr |-> NoStderr]

\* StdioTransport.__init__; process 0 stands for None; issued is the record
\* of the ids next_id() has returned
StdioTransport(command, env) ==
    [command |-> command, env |-> env, process |-> 0, request_id |-> 0,
     issued |-> <<>>]

\* StdioTransport.is_alive
is_alive(t, ps) == t.process # 0 /\ ps[t.process].state = "running"

\* terminate(), wait(timeout=5), kill(): the child ends, its pipes are gone
Terminated(pr) ==
    IF pr.state = "running"
    THEN [pr EXCEPT !.state = "exited", !.reason = "stopped",
                    !.stdinClosed = TRUE, !.stdin = <<>>, !.stdout = <<>>]
    ELSE pr

\* Variant of TransportStop: the handle is dropped, the child not terminated
TransportStop_DropsHandle(t, ps) ==
    [t |-> [t EXCEPT !.process = 0], ps |-> ps]

\* Variant of TransportStop: the request counter starts again
TransportStop_ResetsCounter(t, ps) ==
    IF t.process # 0
    THEN [t  |-> [t EXCEPT !.process = 0, !.request_id = 0],
          ps |-> [ps EXCEPT ![t.process] = Terminated(ps[t.process])]]
    ELSE [t |-> t, ps |-> ps]

\* StdioTransport.stop
TransportStop(t, ps) ==
    IF t.process # 0
    THEN [t  |-> [t EXCEPT !.process = 0],
          ps |-> [ps EXCEPT ![t.process] = Terminated(ps[t.process])]]
    ELSE [t |-> t, ps |-> ps]

\* subprocess.Popen raises when the command cannot be executed
Launchable(command) == command # "missing"

\* Variant of TransportStart: no stop() of a child that is still running
TransportStart_NoStop(t, ps) ==
    IF Launchable(t.command)
    THEN [t  |-> [t EXCEPT !.process = Len(ps) + 1],
          ps |-> Append(ps, NewProc(t.command, t.env)),
          raised |-> FALSE]
    ELSE [t |-> t, ps |-> ps, raised |-> TRUE]

\* StdioTransport.start
TransportStart(t, ps) ==
    LET s == IF is_alive(t, ps) THEN TransportStop(t, ps) ELSE [t |-> t, ps |-> ps]
    IN  IF Launchable(t.command)
        THEN [t  |-> [s.t EXCEPT !.process = Len(s.ps) + 1],
              ps |-> Append(s.ps, NewProc(t.command, t.env)),
              raised |-> FALSE]
        ELSE [t |-> s.t, ps |-> s.ps, raised |-> TRUE]

\* StdioTransport.next_id: the transport after the call; the id returned is
\* its request_id
TransportNextId(t) ==
    [t EXCEPT !.request_id = t.request_id + 1,
              !.issued = Append(t.issued, t.request_id + 1)]

\* StdioTransport.send up to the blocking readline: the liveness check, then
\* the request line written to the child's stdin
SendWrite(t, ps, req) ==
    IF ~is_alive(t, ps)
    THEN [ps |-> ps, raised |-> TRUE]
    ELSE [ps |-> [ps EXCEPT ![t.process].stdin = Append(@, to_json(req)),
                            ![t.process].sent  = Append(@, req)],
          raised |-> FALSE]

\* stdout.readline() can return: a line is there, or the child has exited
\* (end of file)
CanRead(t, ps) ==
    \/ ps[t.process].stdout # <<>>
    \/ ps[t.process].state = "exited"

\* Variant of StderrSlice: the whole text, not cut
StderrSlice_Whole(n) == [from |-> 0, to |-> n]

\* stderr[:500] of a text of n characters
StderrSlice(n) ==
    [from |-> 0, to |-> IF n < StderrPrefix THEN n ELSE StderrPrefix]

\* StdioTransport.send from the readline on: the response decoded, or the
\* "process died" failure on an empty read
SendRead(t, ps) ==
    LET pr == ps[t.process]
    IN  IF pr.stdout = <<>>
        THEN [ps |-> ps, raised |-> TRUE, resp |-> NoResp,
              stderr |-> StderrSlice(pr.stderr)]
        ELSE [ps |-> [ps EXCEPT ![t.process].stdout = Tail(@),
                                ![t.process].recv =
                                    Append(@, from_json(Head(pr.stdout)))],
              raised |-> FALSE,
              resp |-> from_json(Head(pr.stdout)),
              stderr |-> NoStderr]

\* A child process ends on its own (killed by the system, out of memory...)
ProcDies(p) ==
    /\ procs[p].state = "running"
    /\ procs' = [procs EXCEPT ![p].state = "exited", ![p].reason = "fault"]
    /\ UNCHANGED <<transports, servers, ctl, last, nops>>

\* Lengths of what a dying child has written to its standard error
StderrLens == {120, 600}

\* A child process ends on its own after writing n characters to its
\* standard error
ProcDiesNoisy(p, n) ==
    /\ procs[p].state = "running"
    /\ procs' = [procs EXCEPT ![p].state = "exited", ![p].reason = "fault",
                              ![p].stderr = n]
    /\ UNCHANGED <<transports, servers, ctl, last, nops>>

----------------------------------------------------------------------------
(* SpecLoop: one worker (python -m mcp_tools.servers.echo) whose stdin is  *)
(* written by an arbitrary peer.                                           *)

RawLines ==
    { BlankLine, GarbageLine, ScalarLine,
      to_json(JsonRpcRequest("ping", EmptyParams, JInt(1))),
      to_json(JsonRpcRequest("tools/call", CallParams(JStr("echo"), "hi"), JInt(2))),
      to_json(JsonRpcRequest("tools/call", CallParams(JStr("nope"), "hi"), JStr("a"))),
      to_json(JsonRpcRequest("tools/call", NonDictParams, JInt(3))),
      ObjectLine({"method"}, JInt(7), EmptyParams, Null) }

InitLoop ==
    /\ procs = <<NewProc("echo", NoEnv)>>
    /\ transports = <<>>
    /\ servers = <<>>
    /\ ctl = CtlIdle
    /\ last = LastNone
    /\ nops = 0

\* The peer writes one more line to the worker's stdin
Feed(line) ==
    /\ ~procs[1].stdinClosed
    /\ Len(procs[1].readLog) + Len(procs[1].stdin) < MaxLines
    /\ procs' = [procs EXCEPT ![1].stdin = Append(@, line)]
    /\ UNCHANGED <<transports, servers, ctl, last, nops>>

\* The peer closes the worker's stdin
CloseStdin ==
    /\ ~procs[1].stdinClosed
    /\ procs' = [procs EXCEPT ![1].stdinClosed = TRUE]
    /\ UNCHANGED <<transports, servers, ctl, last, nops>>

NextLoop ==
    \/ \E line \in RawLines : Feed(line)
    \/ CloseStdin
    \/ LoopRead(1)
    \/ LoopHandle(1)

SpecLoop == InitLoop /\ [][NextLoop]_vars

----------------------------------------------------------------------------
(* SpecTransport: a caller that owns one StdioTransport (transports[1])    *)
(* and calls start, stop, next_id and send on it, one call at a time.      *)

\* The requests the caller sends: method and params
CallerRequests ==
    { <<"ping", EmptyParams>>,
      <<"tools/list", EmptyParams>>,
      <<"tools/call", CallParams(JStr("echo"), "hi")>>,
      <<"tools/call", CallParams(JStr("nope"), "hi")>> }

InitTransport ==
    /\ procs = <<>>
    /\ \E cmd \in {"echo", "missing"} : transports = <<StdioTransport(cmd, NoEnv)>>
    /\ servers = <<>>
    /\ ctl = CtlIdle
    /\ last = LastNone
    /\ nops = 0

\* The caller may begin an operation that spawns at most n children
CanBegin(n) == ctl.pc = "idle" /\ nops < MaxOps /\ Len(procs) + n <= MaxProcs

\* transport.start()
TStart ==
    /\ CanBegin(1)
    /\ LET r == TransportStart(transports[1], procs)
       IN  /\ transports' = [transports EXCEPT ![1] = r.t]
           /\ procs' = r.ps
           /\ last' = Ended("t.start", "", 1,
                            IF r.raised THEN "LaunchError" ELSE "ok",
                            NoReq, NoResp, NoValue)
    /\ nops' = nops + 1
    /\ UNCHANGED <<servers, ctl>>

\* transport.stop()
TStop ==
    /\ CanBegin(0)
    /\ LET r == TransportStop(transports[1], procs)
       IN  /\ transports' = [transports EXCEPT ![1] = r.t]
           /\ procs' = r.ps
           /\ last' = Ended("t.stop", "", 1, "ok", NoReq, NoResp, NoValue)
    /\ nops' = nops + 1
    /\ UNCHANGED <<servers, ctl>>

\* transport.send(JsonRpcRequest(method, params, id)) with id either
\* transport.next_id() or a string of the caller's, up to the readline
TSend(mp, useNext) ==
    /\ CanBegin(0)
    /\ LET t   == IF useNext THEN TransportNextId(transports[1]) ELSE transports[1]
           req == JsonRpcRequest(mp[1], mp[2],
                                 IF useNext THEN JInt(t.request_id) ELSE JStr("x"))
           w   == SendWrite(t, procs, req)
       IN  /\ transports' = [transports EXCEPT ![1] = t]
           /\ procs' = w.ps
           /\ IF w.raised
              THEN /\ last' = Ended("t.send", "", 1, "NotRunning", req, NoResp, NoValue)
                   /\ ctl' = ctl
              ELSE /\ last' = Ended("t.send", "", 1, "pending", req, NoResp, NoValue)
                   /\ ctl' = CtlReading("t.send", "", 1, req, <<>>, <<>>)
    /\ nops' = nops + 1
    /\ UNCHANGED servers

\* send() returns from its readline
TSendReturn ==
    /\ ctl.pc = "reading" /\ ctl.op = "t.send"
    /\ CanRead(transports[ctl.tid], procs)
    /\ LET r == SendRead(transports[ctl.tid], procs)
       IN  /\ procs' = r.ps
           /\ last' = [Ended("t.send", "", ctl.tid,
                             IF r.raised THEN "Died" ELSE "ok",
                             ctl.req, r.resp, NoValue)
                        EXCEPT !.stderr = r.stderr]
    /\ ctl' = CtlIdle
    /\ UNCHANGED <<transports, servers, nops>>

NextTransport ==
    \/ TStart
    \/ TStop
    \/ \E mp \in CallerRequests, useNext \in BOOLEAN : TSend(mp, useNext)
    \/ TSendReturn
    \/ \E p \in DOMAIN procs : ProcDies(p)
    \/ \E p \in DOMAIN procs, n \in StderrLens : ProcDiesNoisy(p, n)
    \/ \E p \in DOMAIN procs : LoopRead(p)
    \/ \E p \in DOMAIN procs : LoopHandle(p)

SpecTransport == InitTransport /\ [][NextTransport]_vars

----------------------------------------------------------------------------
(* Controller side: ToolServerManager, manager.py.  _servers is a dict,    *)
(* kept here as the sequence of its entries in insertion order.            *)

Ids == {"A", "B"}

EmptyTools == SchemaList(<<>>)

\* Position of server_id in _servers, 0 when it is no key
IndexOf(sv, sid) ==
    IF \E i \in 1..Len(sv) : sv[i].id = sid
    THEN CHOOSE i \in 1..Len(sv) : sv[i].id = sid
    ELSE 0

\* ToolServerManager.register_server
register_server(sv, sid, command, env) ==
    LET reg == [id |-> sid, command |-> command, transport |-> 0,
                env |-> env, tools |-> EmptyTools]
    IN  IF IndexOf(sv, sid) # 0
        THEN [sv EXCEPT ![IndexOf(sv, sid)] = reg]
        ELSE Append(sv, reg)

\* `response.result or []`
OrEmpty(result) ==
    IF result.t = "null" \/ (result.t = "schemas" /\ result.names = <<>>)
    THEN EmptyTools ELSE result

\* Variant of StartBegin: an unknown id gets an entry before the failure
StartBegin_AddsEntry(st, sid) ==
    LET i   == IndexOf(st.sv, sid)
        tid == Len(st.tr) + 1
        s   == TransportStart(StdioTransport(st.sv[i].command, st.sv[i].env), st.ps)
        t   == TransportNextId(s.t)
        req == JsonRpcRequest("tools/list", EmptyParams, JInt(t.request_id))
        w   == SendWrite(t, s.ps, req)
    IN  IF i = 0
        THEN [ps |-> st.ps, tr |-> st.tr,
              sv |-> register_server(st.sv, sid, "missing", NoEnv),
              outcome |-> "UnknownServer", tid |-> 0, req |-> NoReq]
        ELSE IF s.raised
        THEN [ps |-> s.ps, tr |-> Append(st.tr, s.t), sv |-> st.sv,
              outcome |-> "LaunchError", tid |-> tid, req |-> NoReq]
        ELSE [ps |-> w.ps, tr |-> Append(st.tr, t),
              sv |-> [st.sv EXCEPT ![i].transport = tid],
              outcome |-> IF w.raised THEN "TransportNotRunning" ELSE "pending",
              tid |-> tid, req |-> req]

\* ToolServerManager.start up to the readline of the discovery request.
\* st is [ps, tr, sv]: the processes, the transports and _servers.
StartBegin(st, sid) ==
    LET i   == IndexOf(st.sv, sid)
        tid == Len(st.tr) + 1
        s   == TransportStart(StdioTransport(st.sv[i].command, st.sv[i].env), st.ps)
        t   == TransportNextId(s.t)
        req == JsonRpcRequest("tools/list", EmptyParams, JInt(t.request_id))
        w   == SendWrite(t, s.ps, req)
    IN  IF i = 0
        THEN [ps |-> st.ps, tr |-> st.tr, sv |-> st.sv,
              outcome |-> "UnknownServer", tid |-> 0, req |-> NoReq]
        ELSE IF s.raised
        THEN [ps |-> s.ps, tr |-> Append(st.tr, s.t), sv |-> st.sv,
              outcome |-> "LaunchError", tid |-> tid, req |-> NoReq]
        ELSE [ps |-> w.ps, tr |-> Append(st.tr, t),
              sv |-> [st.sv EXCEPT ![i].transport = tid],
              outcome |-> IF w.raised THEN "TransportNotRunning" ELSE "pending",
              tid |-> tid, req |-> req]

\* Variant of StartEnd: the discovered schemas are returned but not cached
StartEnd_NoCache(st, sid, tid) ==
    LET r == SendRead(st.tr[tid], st.ps)
    IN  IF r.raised
        THEN [ps |-> r.ps, tr |-> st.tr, sv |-> st.sv,
              outcome |-> "Died", resp |-> r.resp, value |-> NoValue]
        ELSE IF is_error(r.resp)
        THEN [ps |-> r.ps, tr |-> st.tr, sv |-> st.sv,
              outcome |-> "DiscoveryError", resp |-> r.resp, value |-> NoValue]
        ELSE [ps |-> r.ps, tr |-> st.tr, sv |-> st.sv,
              outcome |-> "ok", resp |-> r.resp,
              value |-> OrEmpty(r.resp.result)]

\* ToolServerManager.start from the readline on
StartEnd(st, sid, tid) ==
    LET i == IndexOf(st.sv, sid)
        r == SendRead(st.tr[tid], st.ps)
    IN  IF r.raised
        THEN [ps |-> r.ps, tr |-> st.tr, sv |-> st.sv,
              outcome |-> "Died", resp |-> r.resp, value |-> NoValue]
        ELSE IF is_error(r.resp)
        THEN [ps |-> r.ps, tr |-> st.tr, sv |-> st.sv,
              outcome |-> "DiscoveryError", resp |-> r.resp, value |-> NoValue]
        ELSE [ps |-> r.ps, tr |-> st.tr,
              sv |-> [st.sv EXCEPT ![i].tools = OrEmpty(r.resp.result)],
              outcome |-> "ok", resp |-> r.resp,
              value |-> OrEmpty(r.resp.result)]

\* Variant of ManagerStop: the cached schemas are dropped with the transport
ManagerStop_DropsCache(st, sid) ==
    LET i == IndexOf(st.sv, sid)
    IN  IF i # 0 /\ st.sv[i].transport # 0
        THEN LET r == TransportStop(st.tr[st.sv[i].transport], st.ps)
             IN  [ps |-> r.ps,
                  tr |-> [st.tr EXCEPT ![st.sv[i].transport] = r.t],
                  sv |-> [st.sv EXCEPT ![i].transport = 0,
                                       ![i].tools = EmptyTools],
                  raised |-> FALSE]
        ELSE [ps |-> st.ps, tr |-> st.tr, sv |-> st.sv, raised |-> FALSE]

\* Variant of ManagerStop: no `if server and server["transport"]`, so that
\* stop() of None raises
ManagerStop_NoGuard(st, sid) ==
    LET i == IndexOf(st.sv, sid)
    IN  IF i # 0 /\ st.sv[i].transport # 0
        THEN LET r == TransportStop(st.tr[st.sv[i].transport], st.ps)
             IN  [ps |-> r.ps,
                  tr |-> [st.tr EXCEPT ![st.sv[i].transport] = r.t],
                  sv |-> [st.sv EXCEPT ![i].transport = 0],
                  raised |-> FALSE]
        ELSE [ps |-> st.ps, tr |-> st.tr, sv |-> st.sv, raised |-> TRUE]

\* ToolServerManager.stop; raised: an exception left it
ManagerStop(st, sid) ==
    LET i == IndexOf(st.sv, sid)
    IN  IF i # 0 /\ st.sv[i].transport # 0
        THEN LET r == TransportStop(st.tr[st.sv[i].transport], st.ps)
             IN  [ps |-> r.ps,
                  tr |-> [st.tr EXCEPT ![st.sv[i].transport] = r.t],
                  sv |-> [st.sv EXCEPT ![i].transport = 0],
                  raised |-> FALSE]
        ELSE [ps |-> st.ps, tr |-> st.tr, sv |-> st.sv, raised |-> FALSE]

\* ToolServerManager.stop_all: stop() for every key, in order
RECURSIVE StopFrom(_, _)
StopFrom(st, todo) ==
    IF todo = <<>>
    THEN [ps |-> st.ps, tr |-> st.tr, sv |-> st.sv, raised |-> FALSE]
    ELSE LET r == ManagerStop(st, Head(todo))
         IN  IF r.raised THEN r ELSE StopFrom(r, Tail(todo))

\* Variant of CallRefused: only `not transport`
CallRefused_NoAliveCheck(tid, tr, ps) == tid = 0

\* ToolServerManager.call: `not transport or not transport.is_alive()`
CallRefused(tid, tr, ps) == tid = 0 \/ ~is_alive(tr[tid], ps)

\* ToolServerManager.list_tools
list_tools(sv, sid) ==
    IF IndexOf(sv, sid) # 0 THEN sv[IndexOf(sv, sid)].tools ELSE EmptyTools

\* ToolServerManager.is_running
is_running(sv, tr, ps, sid) ==
    LET i == IndexOf(sv, sid)
    IN  i # 0 /\ sv[i].transport # 0 /\ is_alive(tr[sv[i].transport], ps)

\* Variant of StartAllFrom: no try/except around start(), the first failure
\* ends the loop and is raised to the caller
StartAllFrom_NoCatch(st, todo, results) ==
    IF todo = <<>>
    THEN [ps |-> st.ps, tr |-> st.tr, sv |-> st.sv, outcome |-> "ok",
          sid |-> "", tid |-> 0, req |-> NoReq, todo |-> <<>>, results |-> results]
    ELSE LET b == StartBegin(st, Head(todo))
         IN  [ps |-> b.ps, tr |-> b.tr, sv |-> b.sv, outcome |-> b.outcome,
              sid |-> Head(todo), tid |-> b.tid, req |-> b.req,
              todo |-> Tail(todo), results |-> results]

\* ToolServerManager.start_all: the loop over the keys of _servers, run
\* until a start blocks in its readline (pending) or the loop is over
RECURSIVE StartAllFrom(_, _, _)
StartAllFrom(st, todo, results) ==
    IF todo = <<>>
    THEN [ps |-> st.ps, tr |-> st.tr, sv |-> st.sv, outcome |-> "ok",
          sid |-> "", tid |-> 0, req |-> NoReq, todo |-> <<>>, results |-> results]
    ELSE LET b == StartBegin(st, Head(todo))
         IN  IF b.outcome = "pending"
             THEN [ps |-> b.ps, tr |-> b.tr, sv |-> b.sv, outcome |-> "pending",
                   sid |-> Head(todo), tid |-> b.tid, req |-> b.req,
                   todo |-> Tail(todo), results |-> results]
             ELSE StartAllFrom([ps |-> b.ps, tr |-> b.tr, sv |-> b.sv], Tail(todo),
                               Append(results, [id |-> Head(todo), tools |-> EmptyTools]))

KeysOf(sv) == [i \in 1..Len(sv) |-> sv[i].id]

\* The class of the exception an operation raises when it ends with outcome
ExceptionClass(outcome) ==
    CASE outcome = "UnknownServer"       -> "ValueError"    \* manager.py 87, 156
      [] outcome = "LaunchError"         -> "OSError"       \* Popen
      [] outcome = "NotRunning"          -> "RuntimeError"  \* manager.py 160
      [] outcome = "TransportNotRunning" -> "RuntimeError"  \* transport.py 141
      [] outcome = "Died"                -> "RuntimeError"  \* transport.py 153
      [] outcome = "DiscoveryError"      -> "RuntimeError"  \* manager.py 103
      [] outcome = "ToolCallError"       -> "RuntimeError"  \* manager.py 171
      [] OTHER                           -> ""

Now == [ps |-> procs, tr |-> transports, sv |-> servers]

----------------------------------------------------------------------------
(* Spec: a caller that owns one ToolServerManager and calls its            *)
(* operations one at a time.                                               *)

\* The server configurations the caller registers: command and env
ServerConfigs ==
    { <<"echo", NoEnv>>, <<"calc", Override>>, <<"badschema", NoEnv>>,
      <<"missing", NoEnv>> }

\* Tool names the caller asks for
ToolNames == {"echo", "nope"}

Init ==
    /\ procs = <<>>
    /\ transports = <<>>
    /\ servers = <<>>
    /\ ctl = CtlIdle
    /\ last = LastNone
    /\ nops = 0

\* manager.register_server(sid, command, env)
Register(sid, command, env) ==
    /\ CanBegin(0)
    /\ servers' = register_server(servers, sid, command, env)
    /\ last' = [Ended("register", sid, 0, "ok", NoReq, NoResp, NoValue)
                   EXCEPT !.arg = command]
    /\ nops' = nops + 1
    /\ UNCHANGED <<procs, transports, ctl>>

\* manager.start(sid), up to the readline
Start(sid) ==
    /\ CanBegin(1)
    /\ LET b == StartBegin(Now, sid)
       IN  /\ procs' = b.ps /\ transports' = b.tr /\ servers' = b.sv
           /\ last' = Ended("start", sid, b.tid, b.outcome, b.req, NoResp, NoValue)
           /\ ctl' = IF b.outcome = "pending"
                     THEN CtlReading("start", sid, b.tid, b.req, <<>>, <<>>)
                     ELSE ctl
    /\ nops' = nops + 1

\* manager.start(sid) returns from the readline
StartReturn ==
    /\ ctl.pc = "reading" /\ ctl.op = "start"
    /\ CanRead(transports[ctl.tid], procs)
    /\ LET e == StartEnd(Now, ctl.sid, ctl.tid)
       IN  /\ procs' = e.ps /\ transports' = e.tr /\ servers' = e.sv
           /\ last' = Ended("start", ctl.sid, ctl.tid, e.outcome, ctl.req,
                            e.resp, e.value)
    /\ ctl' = CtlIdle
    /\ UNCHANGED nops

\* manager.start_all(), up to the first readline
StartAll ==
    /\ CanBegin(Len(servers))
    /\ LET a == StartAllFrom(Now, KeysOf(servers), <<>>)
       IN  /\ procs' = a.ps /\ transports' = a.tr /\ servers' = a.sv
           /\ last' = [Ended("start_all", a.sid, a.tid, a.outcome, a.req,
                             NoResp, NoValue) EXCEPT !.results = a.results]
           /\ ctl' = IF a.outcome = "pending"
                     THEN CtlReading("start_all", a.sid, a.tid, a.req,
                                     a.todo, a.results)
                     ELSE ctl
    /\ nops' = nops + 1

\* manager.start_all() returns from a readline and goes on to the next one
StartAllReturn ==
    /\ ctl.pc = "reading" /\ ctl.op = "start_all"
    /\ CanRead(transports[ctl.tid], procs)
    /\ LET e == StartEnd(Now, ctl.sid, ctl.tid)
           a == StartAllFrom([ps |-> e.ps, tr |-> e.tr, sv |-> e.sv], ctl.todo,
                             Append(ctl.results,
                                    [id |-> ctl.sid,
                                     tools |-> IF e.outcome = "ok" THEN e.value
                                               ELSE EmptyTools]))
       IN  /\ procs' = a.ps /\ transports' = a.tr /\ servers' = a.sv
           /\ last' = [Ended("start_all", a.sid, a.tid, a.outcome, a.req,
                             NoResp, NoValue) EXCEPT !.results = a.results]
           /\ ctl' = IF a.outcome = "pending"
                     THEN CtlReading("start_all", a.sid, a.tid, a.req,
                                     a.todo, a.results)
                     ELSE CtlIdle
    /\ UNCHANGED nops

\* manager.stop(sid)
Stop(sid) ==
    /\ CanBegin(0)
    /\ LET r == ManagerStop(Now, sid)
       IN  /\ procs' = r.ps /\ transports' = r.tr /\ servers' = r.sv
           /\ last' = [Ended("stop", sid, 0,
                             IF r.raised THEN "AttributeError" ELSE "ok",
                             NoReq, NoResp, NoValue)
                        EXCEPT !.arg = IF IndexOf(servers, sid) = 0
                                       THEN "unknown"
                                       ELSE IF servers[IndexOf(servers, sid)].transport = 0
                                       THEN "detached" ELSE "attached"]
    /\ nops' = nops + 1
    /\ UNCHANGED ctl

\* manager.stop_all()
StopAll ==
    /\ CanBegin(0)
    /\ LET r == StopFrom(Now, KeysOf(servers))
       IN  /\ procs' = r.ps /\ transports' = r.tr /\ servers' = r.sv
           /\ last' = Ended("stop_all", "", 0,
                            IF r.raised THEN "AttributeError" ELSE "ok",
                            NoReq, NoResp, NoValue)
    /\ nops' = nops + 1
    /\ UNCHANGED ctl

\* manager.call(sid, tool_name, arguments), up to the readline
Call(sid, tool_name) ==
    /\ CanBegin(0)
    /\ LET i   == IndexOf(servers, sid)
           tid == servers[i].transport
           t   == TransportNextId(transports[tid])
           req == JsonRpcRequest("tools/call", CallParams(JStr(tool_name), "hi"),
                                 JInt(t.request_id))
           w   == SendWrite(t, procs, req)
       IN  IF i = 0
           THEN /\ last' = Ended("call", sid, 0, "UnknownServer", NoReq, NoResp, NoValue)
                /\ UNCHANGED <<procs, transports, ctl>>
           ELSE IF CallRefused(tid, transports, procs)
           THEN /\ last' = Ended("call", sid, tid, "NotRunning", NoReq, NoResp, NoValue)
                /\ UNCHANGED <<procs, transports, ctl>>
           ELSE /\ transports' = [transports EXCEPT ![tid] = t]
                /\ procs' = w.ps
                /\ last' = Ended("call", sid, tid,
                                 IF w.raised THEN "TransportNotRunning" ELSE "pending",
                                 req, NoResp, NoValue)
                /\ ctl' = IF w.raised THEN ctl
                          ELSE CtlReading("call", sid, tid, req, <<>>, <<>>)
    /\ nops' = nops + 1
    /\ UNCHANGED servers

\* manager.call returns from the readline
CallReturn ==
    /\ ctl.pc = "reading" /\ ctl.op = "call"
    /\ CanRead(transports[ctl.tid], procs)
    /\ LET r == SendRead(transports[ctl.tid], procs)
       IN  /\ procs' = r.ps
           /\ last' = Ended("call", ctl.sid, ctl.tid,
                            IF r.raised THEN "Died"
                            ELSE IF is_error(r.resp) THEN "ToolCallError" ELSE "ok",
                            ctl.req, r.resp,
                            IF ~r.raised /\ ~is_error(r.resp) THEN r.resp.result
                            ELSE NoValue)
    /\ ctl' = CtlIdle
    /\ UNCHANGED <<transports, servers, nops>>

Next ==
    \/ \E sid \in Ids, cfg \in ServerConfigs : Register(sid, cfg[1], cfg[2])
    \/ \E sid \in Ids : Start(sid)
    \/ StartReturn
    \/ StartAll
    \/ StartAllReturn
    \/ \E sid \in Ids : Stop(sid)
    \/ StopAll
    \/ \E sid \in Ids, tool_name \in ToolNames : Call(sid, tool_name)
    \/ CallReturn
    \/ \E p \in DOMAIN procs : ProcDies(p)
    \/ \E p \in DOMAIN procs : LoopRead(p)
    \/ \E p \in DOMAIN procs : LoopHandle(p)

Spec == Init /\ [][Next]_vars

----------------------------------------------------------------------------
(* Properties of the dispatch loop, checked under SpecLoop                 *)

\* Indices in outLog of the lines written for the k-th line read
RespFor(pr, k) == {j \in 1..Len(pr.outLog) : pr.outFor[j] = k}

\* The k-th line read got exactly one response line, carrying the id i
AnsweredOnce(pr, k, i) ==
    /\ Cardinality(RespFor(pr, k)) = 1
    /\ \A j \in RespFor(pr, k) : pr.outLog[j].id = i

\* The loop is still going after the lines handled so far: it runs, or it
\* ended at end of file
LoopGoesOn(pr) == pr.state = "running" \/ pr.reason = "eof"

\* C2: the dispatch loop stops only when its input stream is closed, and
\* every non-empty line it has handled, whatever its content, got a
\* response.
C2_LoopNeverExitsOnBadRequest ==
    \A p \in DOMAIN procs :
        /\ procs[p].state = "exited" =>
               procs[p].reason = "eof" /\ procs[p].stdinClosed
        /\ \A k \in 1..Len(procs[p].done) :
               procs[p].readLog[k].k # "blank" => RespFor(procs[p], k) # {}

\* C3: a line that is no JSON gets exactly one response, an error with id
\* null and code -32700 and no result; no handler is invoked for it; the
\* loop goes on, and a request read next gets its one response with its id.
C3_ParseErrorAnswered ==
    \A p \in DOMAIN procs :
        LET pr == procs[p]
        IN  \A k \in 1..Len(pr.done) :
                pr.readLog[k].k = "garbage" =>
                    /\ AnsweredOnce(pr, k, Null)
                    /\ \A j \in RespFor(pr, k) :
                          /\ pr.outLog[j].keys = {"jsonrpc", "id", "error"}
                          /\ pr.outLog[j].error.code = ParseErrorCode
                          /\ from_json(pr.outLog[j]).result = NoValue
                    /\ ~pr.done[k].called
                    /\ k = Len(pr.done) => LoopGoesOn(pr)
                    /\ (k < Len(pr.done) /\ pr.readLog[k + 1].k = "object") =>
                           AnsweredOnce(pr, k + 1, pr.readLog[k + 1].id)

\* C3 witness: an unparseable line was answered and the request after it too
C3_Witness ==
    \E k \in 1..(Len(procs[1].done) - 1) :
        /\ procs[1].readLog[k].k = "garbage"
        /\ procs[1].readLog[k + 1].k = "object"
        /\ RespFor(procs[1], k) # {}
        /\ RespFor(procs[1], k + 1) # {}

\* C4: when a handler's handle raises, the request gets exactly one
\* response, an error with code -32603, the request's id and the exception's
\* message; the handler mapping is what it was at startup; the loop goes on
\* and every later request gets its one response.
C4_HandlerExceptionCaught ==
    \A p \in DOMAIN procs :
        LET pr == procs[p]
        IN  /\ pr.handlers = HandlerNames(pr.cmd)
            /\ \A k \in 1..Len(pr.done) :
                 (pr.done[k].called /\ pr.done[k].hout = "raise") =>
                    /\ AnsweredOnce(pr, k, pr.readLog[k].id)
                    /\ \A j \in RespFor(pr, k) :
                          /\ pr.outLog[j].keys = {"jsonrpc", "id", "error"}
                          /\ pr.outLog[j].error =
                                 ErrObj(InternalErrorCode, HandlerErrMsg)
                    /\ k = Len(pr.done) => LoopGoesOn(pr)
                    /\ \A m \in (k + 1)..Len(pr.done) :
                          pr.readLog[m].k = "object" =>
                              AnsweredOnce(pr, m, pr.readLog[m].id)

\* C4 witness: a handler raised, its request was answered, and a later
\* request was answered as well
C4_Witness ==
    \E k \in 1..(Len(procs[1].done) - 1) :
        /\ procs[1].done[k].called /\ procs[1].done[k].hout = "raise"
        /\ RespFor(procs[1], k) # {}
        /\ procs[1].readLog[k + 1].k = "object"
        /\ RespFor(procs[1], k + 1) # {}

\* C5: the loop writes exactly one response line for each non-empty line it
\* has handled and none for an empty one, the responses are on the output in
\* the order of the lines, and when a line has been read every non-empty line
\* before it has its response already.
C5_OneResponsePerLine ==
    \A p \in DOMAIN procs :
        LET pr == procs[p]
        IN  /\ \A k \in 1..Len(pr.done) :
                 Cardinality(RespFor(pr, k)) =
                     IF pr.readLog[k].k = "blank" THEN 0 ELSE 1
            /\ \A i, j \in 1..Len(pr.outFor) : i < j => pr.outFor[i] < pr.outFor[j]
            /\ \A k \in 1..(Len(pr.readLog) - 1) :
                 pr.readLog[k].k # "blank" => RespFor(pr, k) # {}

\* The line is a tools/call request whose params name, by a string, a tool
\* the worker has no handler for
CallsUnknownTool(pr, line) ==
    /\ line.k = "object"
    /\ line.method = JStr("tools/call")
    /\ line.params.t = "dict"
    /\ "name" \in line.params.keys
    /\ line.params.name.t = "str"
    /\ \A i \in 1..Len(pr.handlers) : pr.handlers[i] # line.params.name.s

\* C19: a tools/call request that names a tool with no handler gets exactly
\* one response, an error with the request's id and code -32603 whose
\* message holds the name asked for and the name of every handler there
\* is; no handler is invoked for it.
C19_UnknownToolAnswered ==
    \A p \in DOMAIN procs :
        LET pr == procs[p]
        IN  \A k \in 1..Len(pr.done) :
                CallsUnknownTool(pr, pr.readLog[k]) =>
                    /\ AnsweredOnce(pr, k, pr.readLog[k].id)
                    /\ \A j \in RespFor(pr, k) :
                          LET e == pr.outLog[j].error
                          IN  /\ pr.outLog[j].keys = {"jsonrpc", "id", "error"}
                              /\ e.code = InternalErrorCode
                              /\ \E i \in 1..Len(e.message) :
                                    e.message[i] = Render(pr.readLog[k].params.name)
                              /\ \A h \in 1..Len(pr.handlers) :
                                    \E i \in 1..Len(e.message) :
                                        e.message[i] = pr.handlers[h]
                    /\ ~pr.done[k].called

\* C19 witness: the worker has handled a tools/call for "nope", which is no
\* tool of it, and written a line for it
C19_Witness ==
    \E k \in 1..Len(procs[1].done) :
        /\ CallsUnknownTool(procs[1], procs[1].readLog[k])
        /\ procs[1].readLog[k].params.name = JStr("nope")
        /\ procs[1].handlers # <<>>
        /\ RespFor(procs[1], k) # {}

----------------------------------------------------------------------------
(* Properties of StdioTransport, checked under SpecTransport               *)

\* The caller's operation op began in this step
Began(op) == nops' = nops + 1 /\ last'.op = op

\* C1: for the requests send() wrote to one child, one at a time, send()
\* returned the responses in the same order, the k-th carrying the id of the
\* k-th request; while the child is alive and no send is pending there are
\* as many responses as requests.
C1_ResponsesInRequestOrder ==
    \A p \in DOMAIN procs :
        LET pr == procs[p]
        IN  /\ Len(pr.recv) <= Len(pr.sent)
            /\ \A k \in 1..Len(pr.recv) : pr.recv[k].id = pr.sent[k].id
            /\ (pr.state = "running" /\ ctl.pc = "idle") =>
                   Len(pr.recv) = Len(pr.sent)

\* C1 witness: two requests with different ids were answered by a live child
C1_Witness ==
    \E p \in DOMAIN procs :
        /\ procs[p].state = "running"
        /\ Len(procs[p].recv) >= 2
        /\ procs[p].sent[1].id # procs[p].sent[2].id

\* What C7 asks of one step of the caller
C7_Step ==
    LET t  == transports[1]
        t2 == transports'[1]
    IN  /\ Began("t.stop") =>
              /\ ~is_alive(t2, procs')
              /\ t.process # 0 => procs'[t.process].state = "exited"
        /\ (Began("t.send") /\ t.process = 0) =>
              /\ last'.outcome = "NotRunning"
              /\ procs' = procs
              /\ ctl'.pc = "idle"
        /\ (t.process = 0 /\ t2.process # 0) => Began("t.start")
        /\ (Began("t.start") /\ t.process = 0 /\ Len(procs) > 0) =>
              /\ last'.outcome = "ok"
              /\ t2.process \notin DOMAIN procs
              /\ is_alive(t2, procs')
        /\ (Began("t.send") /\ is_alive(t, procs)) =>
              /\ last'.outcome = "pending"
              /\ procs'[t.process].stdin =
                     Append(procs[t.process].stdin, to_json(last'.req))

\* C7: stop() leaves the transport without a live child (is_alive false, the
\* former child ended); while it is stopped send() fails and writes nothing;
\* only start() binds a child again, and that start() succeeds with a child
\* that did not exist before; send() on the started transport writes its
\* request to that child.
C7_StopThenFreshStart == [][C7_Step]_vars

\* C7 witness: a send answered by the second child, after start, stop, start
C7_Witness ==
    /\ Len(procs) = 2
    /\ procs[1].reason = "stopped"
    /\ transports[1].process = 2
    /\ last.op = "t.send" /\ last.outcome = "ok"

\* C9: every live child the transport spawned is the one it holds: start()
\* on a started transport has stopped the previous child, so there is never
\* a second live child nor an unreferenced one.
C9_AtMostOneLiveChild ==
    \A p \in DOMAIN procs :
        procs[p].state = "running" => transports[1].process = p

\* C9 witness: start() was called on a transport whose child was running
C9_Witness ==
    /\ nops = 2 /\ last.op = "t.start" /\ last.outcome = "ok"
    /\ Len(procs) = 2
    /\ procs[1].reason = "stopped"
    /\ procs[2].state = "running"

\* What C15 asks of one step of the caller
C15_Step ==
    LET t == transports[1]
        p == t.process
    IN  /\ (Began("t.send") /\ ~is_alive(t, procs)) =>
              /\ last'.outcome = "NotRunning"
              /\ procs' = procs
              /\ ctl'.pc = "idle"
        /\ (Began("t.send") /\ is_alive(t, procs)) =>
              /\ procs'[p].sent = Append(procs[p].sent, last'.req)
              /\ procs'[p].stdin = Append(procs[p].stdin, to_json(last'.req))
              /\ \A q \in DOMAIN procs : q # p => procs'[q] = procs[q]
        /\ (ctl.pc = "reading" /\ ctl.op = "t.send" /\ ctl'.pc = "idle") =>
              /\ \A q \in DOMAIN procs :
                    /\ procs'[q].sent = procs[q].sent
                    /\ procs'[q].stdin = procs[q].stdin
              /\ (procs[p].state = "exited" /\ procs[p].stdout = <<>>) =>
                    /\ last'.outcome = "Died"
                    /\ last'.stderr.from = 0
                    /\ last'.stderr.to <= StderrPrefix
                    /\ last'.stderr.to =
                           IF procs[p].stderr < StderrPrefix
                           THEN procs[p].stderr ELSE StderrPrefix
                    /\ procs' = procs

C17_NextIdCountsFromOne ==
    \A k \in 1..Len(transports[1].issued) : transports[1].issued[k] = k

\* C17 witness: next_id() returned 1 for a request to the first child and,
\* after the transport was started again, 2 for a request to the second
C17_Witness ==
    /\ transports[1].issued = <<1, 2>>
    /\ Len(procs) = 2
    /\ procs[1].reason = "stopped"
    /\ procs[1].sent # <<>> /\ procs[1].sent[1].id = JInt(1)
    /\ procs[2].sent # <<>> /\ procs[2].sent[1].id = JInt(2)

----------------------------------------------------------------------------
(* Properties of ToolServerManager, checked under Spec                     *)

\* What C6 asks of one step of the caller
C6_Step ==
    (/\ Began("call")
     /\ IndexOf(servers, last'.sid) # 0
     /\ ~is_running(servers, transports, procs, last'.sid)) =>
        /\ last'.outcome = "NotRunning"
        /\ UNCHANGED <<procs, transports, servers, ctl>>

\* C6: call() on a registered id without a live transport (never started,
\* stopped, or its worker exited) fails with the not-running error, writes
\* nothing to any worker and leaves the registrations and the transports as
\* they were.
C6_CallNotRunning == [][C6_Step]_vars

\* C6 witness: call() refused on a stopped server whose schemas are cached
C6_Witness ==
    /\ last.op = "call" /\ last.outcome = "NotRunning"
    /\ IndexOf(servers, last.sid) # 0
    /\ servers[IndexOf(servers, last.sid)].transport = 0
    /\ servers[IndexOf(servers, last.sid)].tools # EmptyTools

\* C8: every live child process is the child of the transport of some
\* registration, so no registration has a second live child and none is
\* left behind by start() or register() on a running id.
C8_OneChildPerRegistration ==
    \A p \in DOMAIN procs :
        procs[p].state = "running" =>
            \E i \in 1..Len(servers) :
                /\ servers[i].transport # 0
                /\ transports[servers[i].transport].process = p

\* The k-th server's own start failed: it cannot be launched, it cannot
\* encode its schemas, or its child ended on its own
OwnFailure(k) ==
    \/ servers[k].command \in {"missing", "badschema"}
    \/ /\ servers[k].transport # 0
       /\ transports[servers[k].transport].process # 0
       /\ procs[transports[servers[k].transport].process].reason = "fault"

\* C10: start_all() raises nothing and returns one entry per registered id,
\* in order; an id maps to the empty list only when its own start failed,
\* and otherwise to the schemas its worker published.
C10_StartAllBestEffort ==
    last.op = "start_all" =>
        /\ last.outcome \in {"pending", "ok"}
        /\ last.outcome = "ok" =>
              /\ [k \in 1..Len(last.results) |-> last.results[k].id] = KeysOf(servers)
              /\ \A k \in 1..Len(servers) :
                    IF last.results[k].tools = EmptyTools
                    THEN OwnFailure(k)
                    ELSE last.results[k].tools =
                             SchemaList(HandlerNames(servers[k].command))

\* C10 witness: start_all() over a server that cannot be launched followed
\* by one that can
C10_Witness ==
    /\ last.op = "start_all" /\ last.outcome = "ok"
    /\ Len(servers) = 2
    /\ servers[1].command = "missing"
    /\ last.results[1].tools = EmptyTools
    /\ last.results[2].tools # EmptyTools

\* C11: register_server() on an id that is registered with a different
\* command fails with a configuration error and leaves the registrations as
\* they were.
C11_RegisterRejectsOtherCommand ==
    [][(/\ Began("register")
        /\ IndexOf(servers, last'.sid) # 0
        /\ servers[IndexOf(servers, last'.sid)].command # last'.arg) =>
           /\ last'.outcome = "ConfigError"
           /\ servers' = servers]_vars

\* What C12 asks of one step of the caller
C12_Step ==
    (Began("stop") \/ Began("stop_all")) =>
        /\ Len(servers') = Len(servers)
        /\ \A i \in 1..Len(servers) :
              /\ servers'[i].id = servers[i].id
              /\ servers'[i].command = servers[i].command
              /\ servers'[i].env = servers[i].env
              /\ servers'[i].tools = servers[i].tools
              /\ servers'[i].transport =
                     IF last'.op = "stop_all" \/ servers[i].id = last'.sid
                     THEN 0 ELSE servers[i].transport
        /\ \A sid \in Ids : list_tools(servers', sid) = list_tools(servers, sid)

\* C12: stop() and stop_all() leave every registration's cached schemas,
\* command and env as they were, so list_tools() returns the same before and
\* after; only the transport of the stopped registrations is detached.
C12_StopKeepsCache == [][C12_Step]_vars

\* C12 witness: stop() has ended the child of a server whose schemas were
\* discovered, and they are still listed
C12_Witness ==
    /\ last.op \in {"stop", "stop_all"}
    /\ \E i \in 1..Len(servers), p \in DOMAIN procs :
          /\ servers[i].transport = 0
          /\ list_tools(servers, servers[i].id) = SchemaList(HandlerNames(servers[i].command))
          /\ procs[p].reason = "stopped"
          /\ procs[p].cmd = servers[i].command

\* What C13 asks of the step in which start() returns
C13_Step ==
    (/\ ctl.pc = "reading" /\ ctl.op = "start"
     /\ ctl'.pc = "idle" /\ last'.outcome = "ok") =>
        LET p == transports[ctl.tid].process
            w == Head(procs[p].stdout)
        IN  /\ procs[p].sent = <<ctl.req>>
            /\ ctl.req.method = "tools/list"
            /\ w.id = ctl.req.id
            /\ w.result = SchemaList(HandlerNames(procs[p].cmd))
            /\ last'.value = w.result
            /\ list_tools(servers', ctl.sid) = w.result

C14_Step ==
    /\ (/\ ctl.pc = "reading" /\ ctl.op = "call" /\ ctl'.pc = "idle"
         /\ procs[transports[ctl.tid].process].stdout # <<>>) =>
           LET p == transports[ctl.tid].process
               w == from_json(Head(procs[p].stdout))
           IN  IF w.error = ErrNone
               THEN /\ last'.outcome = "ok"
                    /\ last'.value = w.result
               ELSE /\ last'.outcome = "ToolCallError"
                    /\ last'.resp.error = w.error
                    /\ last'.value = NoValue
                    /\ procs'[p].state = procs[p].state
                    /\ UNCHANGED <<servers, transports>>
                    /\ is_running(servers', transports', procs', ctl.sid) =
                           is_running(servers, transports, procs, ctl.sid)
    /\ (Began("call") /\ is_running(servers, transports, procs, last'.sid)) =>
           LET p == transports[servers[IndexOf(servers, last'.sid)].transport].process
           IN  /\ last'.outcome = "pending"
               /\ procs'[p].stdin = Append(procs[p].stdin, to_json(last'.req))

\* C14: call() on a running server returns the result field of the
\* worker's response when the response carries no error, and fails with the
\* tool-call error carrying the worker's error object when it does; the
\* error leaves the server as it was, still running, and a call() on a
\* running server is always written to its worker.
C14_CallResultOrToolError == [][C14_Step]_vars

\* C14 witness: a call() answered with a result by a worker that answered
\* the call() before it with an error
C14_Witness ==
    /\ last.op = "call" /\ last.outcome = "ok"
    /\ last.value = HandlerValue("hi")
    /\ LET pr == procs[transports[last.tid].process]
       IN  /\ pr.state = "running"
           /\ Len(pr.recv) = 3
           /\ pr.sent[2].method = "tools/call"
           /\ is_error(pr.recv[2])
           /\ ~is_error(pr.recv[3])

\* C16: the failure call() raises for a dead worker (the server is not
\* running, or its worker died during the call) is of another kind than
\* the failure it raises for an error response.
C16_DeadWorkerKindDiffers ==
    (last.op = "call" /\ last.outcome \in {"NotRunning", "TransportNotRunning", "Died"}) =>
        ExceptionClass(last.outcome) # ExceptionClass("ToolCallError")

\* What C18 asks of one step of the caller
C18_Step ==
    /\ (/\ Began("stop")
         /\ IndexOf(servers, last'.sid) # 0
         /\ servers[IndexOf(servers, last'.sid)].transport = 0) =>
           /\ last'.outcome = "ok"
           /\ UNCHANGED <<procs, transports, servers, ctl>>
    /\ \A tid \in DOMAIN transports' :
           LET t == transports'[tid]
               r == TransportStop(t, procs')
           IN  /\ t.process = 0 => (r.t = t /\ r.ps = procs')
               /\ TransportStop(r.t, r.ps) = r

\* C18: stop() of the manager on a registered id that has no transport
\* (never started, or stopped) raises nothing and changes nothing; stop()
\* of a transport without a child changes nothing, and a second stop()
\* after a stop() changes nothing more.
C18_StopIdempotent == [][C18_Step]_vars

\* C18 witness: stop() of an id whose worker an earlier stop() had ended
C18_Witness ==
    /\ last.op = "stop" /\ last.outcome = "ok" /\ last.arg = "detached"
    /\ \E p \in DOMAIN procs : procs[p].reason = "stopped"
    /\ \E tid \in DOMAIN transports : transports[tid].process = 0
    /\ list_tools(servers, last.sid) # EmptyTools

\* What C20 asks of one step of the caller
C20_Step ==
    (/\ Began("start") \/ Began("call")
     /\ IndexOf(servers, last'.sid) = 0) =>
        /\ last'.outcome = "UnknownServer"
        /\ ExceptionClass(last'.outcome) = "ValueError"
        /\ UNCHANGED <<procs, transports, servers, ctl>>

\* C20: start() and call() on an id that was never registered fail with the
\* unknown-server error; no process is spawned, nothing is written to any
\* worker, and the registrations and transports are as they were.
C20_UnknownServerRefused == [][C20_Step]_vars

\* C20 witness: call() refused for an unknown id while a registered server
\* is running
C20_Witness ==
    /\ last.op \in {"start", "call"} /\ last.outcome = "UnknownServer"
    /\ IndexOf(servers, last.sid) = 0
    /\ Len(servers) = 1
    /\ is_running(servers, transports, procs, servers[1].id)

----------------------------------------------------------------------------
(* Properties of the messages                                              *)

\* C21: every response send() has decoded has exactly one of result and
\* error populated (not None): a result and no error, or an error and no
\* result, whatever the handler returned.
C21_ExactlyOneOfResultError ==
    \A p \in DOMAIN procs :
        \A k \in 1..Len(procs[p].recv) :
            (procs[p].recv[k].result # NoValue) # (procs[p].recv[k].error # ErrNone)

\* The line is a JSON object that carries an integer or a string as its id
HasId(line) ==
    line.k = "object" /\ "id" \in line.keys /\ line.id.t \in {"int", "str"}

\* C22: every line handled that is a JSON object with an integer or string
\* id got exactly one response, carrying that id; a response with id null
\* was written only for a line that is no JSON or carries no such id.
C22_IdEchoedVerbatim ==
    \A p \in DOMAIN procs :
        LET pr == procs[p]
        IN  \A k \in 1..Len(pr.done) :
                /\ HasId(pr.readLog[k]) => AnsweredOnce(pr, k, pr.readLog[k].id)
                /\ \A j \in RespFor(pr, k) :
                      pr.outLog[j].id = Null => ~HasId(pr.readLog[k])

\* C22 witness: the worker answered a request with a string id, one with an
\* integer id, and a line that is no JSON
C22_Witness ==
    \E i, j, k \in 1..Len(procs[1].done) :
        /\ HasId(procs[1].readLog[i]) /\ procs[1].readLog[i].id.t = "str"
        /\ HasId(procs[1].readLog[j]) /\ procs[1].readLog[j].id.t = "int"
        /\ procs[1].readLog[k].k = "garbage"
        /\ \E m \in RespFor(procs[1], i) : procs[1].outLog[m].id = procs[1].readLog[i].id
        /\ \E m \in RespFor(procs[1], k) : procs[1].outLog[m].id = Null

----------------------------------------------------------------------------
(* SpecCalls: two threads of the controller share one ToolServerManager    *)
(* with two running servers; thread 1 calls server "A", thread 2 server    *)
(* "B".  Here ctl and last hold one record per thread.                     *)

Threads == {1, 2}

\* The server a thread calls, and the arguments it passes
ThreadSid(th)  == IF th = 1 THEN "A" ELSE "B"
ThreadArgs(th) == IF th = 1 THEN "from-1" ELSE "from-2"

\* The tools a thread asks for
ThreadTools(th) == IF th = 1 THEN {"echo", "nope"} ELSE {"calculate", "nope"}

\* Variant of TransportOf: one transport serves every id
TransportOf_Shared(sv, sid) == sv[1].transport

\* call(): server.get("transport") of the registration of sid
TransportOf(sv, sid) == sv[IndexOf(sv, sid)].transport

\* register_server(sid, ...) and start(sid) carried out to their end on st,
\* the worker answering the discovery request
Started(st, sid, command, env) ==
    LET sv == register_server(st.sv, sid, command, env)
        b  == StartBegin([ps |-> st.ps, tr |-> st.tr, sv |-> sv], sid)
        p  == b.tr[b.tid].process
        ps == [b.ps EXCEPT ![p] = ProcHandle(ProcRead(b.ps[p]), "value")]
        e  == StartEnd([ps |-> ps, tr |-> b.tr, sv |-> b.sv], sid, b.tid)
    IN  [ps |-> e.ps, tr |-> e.tr, sv |-> e.sv]

InitCalls ==
    \E a \in {Started([ps |-> <<>>, tr |-> <<>>, sv |-> <<>>],
                      "A", "echo", NoEnv)} :
    \E st \in {Started(a, "B", "calc", Override)} :
        /\ procs = st.ps
        /\ transports = st.tr
        /\ servers = st.sv
        /\ ctl = [th \in Threads |-> CtlIdle]
        /\ last = [th \in Threads |-> LastNone]
        /\ nops = 0

\* Thread th enters call(sid, tool_name, arguments): the look-up, the
\* is_alive() check and next_id()
CBegin(th, tool_name) ==
    /\ ctl[th].pc = "idle" /\ nops < MaxCalls
    /\ LET sid == ThreadSid(th)
           tid == TransportOf(servers, sid)
           t   == TransportNextId(transports[tid])
           req == JsonRpcRequest("tools/call",
                                 CallParams(JStr(tool_name), ThreadArgs(th)),
                                 JInt(t.request_id))
       IN  IF CallRefused(tid, transports, procs)
           THEN /\ last' = [last EXCEPT ![th] =
                               Ended("call", sid, tid, "NotRunning", NoReq,
                                     NoResp, NoValue)]
                /\ UNCHANGED <<transports, ctl>>
           ELSE /\ transports' = [transports EXCEPT ![tid] = t]
                /\ ctl' = [ctl EXCEPT ![th] =
                              [CtlReading("call", sid, tid, req, <<>>, <<>>)
                                  EXCEPT !.pc = "send"]]
                /\ last' = [last EXCEPT ![th] =
                               Ended("call", sid, tid, "pending", req,
                                     NoResp, NoValue)]
    /\ nops' = nops + 1
    /\ UNCHANGED <<procs, servers>>

\* Thread th in transport.send(request): the is_alive() check and the write
CSend(th) ==
    /\ ctl[th].pc = "send"
    /\ LET w == SendWrite(transports[ctl[th].tid], procs, ctl[th].req)
       IN  /\ procs' = w.ps
           /\ IF w.raised
              THEN /\ ctl' = [ctl EXCEPT ![th] = CtlIdle]
                   /\ last' = [last EXCEPT ![th].outcome = "TransportNotRunning"]
              ELSE /\ ctl' = [ctl EXCEPT ![th].pc = "reading"]
                   /\ UNCHANGED last
    /\ UNCHANGED <<transports, servers, nops>>

\* Thread th returns from the readline of send(), and from call(); arg
\* records whether the other thread was blocked in its readline then
CReturn(th) ==
    /\ ctl[th].pc = "reading"
    /\ CanRead(transports[ctl[th].tid], procs)
    /\ LET r == SendRead(transports[ctl[th].tid], procs)
       IN  /\ procs' = r.ps
           /\ last' = [last EXCEPT ![th] =
                          [Ended("call", ctl[th].sid, ctl[th].tid,
                                 IF r.raised THEN "Died"
                                 ELSE IF is_error(r.resp) THEN "ToolCallError"
                                 ELSE "ok",
                                 ctl[th].req, r.resp,
                                 IF ~r.raised /\ ~is_error(r.resp)
                                 THEN r.resp.result ELSE NoValue)
                           EXCEPT !.arg =
                               IF \E o \in Threads : o # th /\ ctl[o].pc = "reading"
                               THEN "concurrent" ELSE "alone"]]
    /\ ctl' = [ctl EXCEPT ![th] = CtlIdle]
    /\ UNCHANGED <<transports, servers, nops>>

NextCalls ==
    \/ \E th \in Threads : \E tool_name \in ThreadTools(th) : CBegin(th, tool_name)
    \/ \E th \in Threads : CSend(th)
    \/ \E th \in Threads : CReturn(th)
    \/ \E p \in DOMAIN procs : ProcDies(p)
    \/ \E p \in DOMAIN procs : LoopRead(p)
    \/ \E p \in DOMAIN procs : LoopHandle(p)

SpecCalls == InitCalls /\ [][NextCalls]_vars

----------------------------------------------------------------------------
(* Properties of concurrent calls, checked under SpecCalls                 *)

\* The worker of the server thread th calls
OwnWorker(th) == transports[TransportOf(servers, ThreadSid(th))].process

\* The call thread th has returned from got the response its own worker
\* wrote for the request of this call
OwnResponse(th) ==
    LET pr == procs[OwnWorker(th)]
    IN  \E j \in 1..Len(pr.outLog) :
            /\ from_json(pr.outLog[j]) = last[th].resp
            /\ pr.readLog[pr.outFor[j]] = to_json(last[th].req)
            /\ last[th].req.params.arguments = ThreadArgs(th)
            /\ last[th].resp.id = last[th].req.id
            /\ last[th].outcome = "ok" => last[th].value = last[th].resp.result

\* What C23 asks of one step
C23_Step ==
    \A th \in Threads :
        /\ last[th].outcome \in {"ok", "ToolCallError"} => OwnResponse(th)
        /\ ctl'[th] # ctl[th] =>
              LET other == CHOOSE o \in Threads : o # th
                  tid   == TransportOf(servers, ThreadSid(other))
              IN  /\ servers' = servers
                  /\ transports'[tid] = transports[tid]
                  /\ procs'[transports[tid].process] = procs[transports[tid].process]

\* C23: with a call to server A and a call to server B under way in two
\* threads, under every interleaving of their steps a call that returns
\* has the response its own worker wrote for its own request, and no step
\* of a call changes the registrations, or the transport, the id counter or
\* the worker of the other server.
C23_CallsDoNotInterfere == [][C23_Step]_vars

\* C23 witness: the call to B returned while the call to A was blocked in
\* its readline, and both have returned with their results
C23_Witness ==
    /\ last[1].outcome = "ok" /\ last[2].outcome = "ok"
    /\ last[2].arg = "concurrent"
    /\ last[1].value = HandlerValue("from-1")
    /\ last[2].value = HandlerValue("from-2")
    /\ ctl[1].pc = "idle" /\ ctl[2].pc = "idle"
    /\ nops = 2

----------------------------------------------------------------------------
(* SpecStop: one thread of the controller calls send() on a started        *)
(* StdioTransport (transports[1]) while another thread calls stop() on it. *)
(* Here ctl holds the position of both threads: sender.proc is the         *)
(* self._process the sender evaluated when it entered the readline.        *)

SenderAt(pc, req, proc) == [pc |-> pc, req |-> req, proc |-> proc]

\* terminate(), wait(timeout=5), kill() seen from a thread that still holds
\* the child's pipes: the child has ended, what it wrote can still be read
Killed(pr) ==
    IF pr.state = "running"
    THEN [pr EXCEPT !.state = "exited", !.reason = "stopped",
                    !.stdinClosed = TRUE, !.stdin = <<>>]
    ELSE pr

InitStop ==
    LET s == TransportStart(StdioTransport("echo", NoEnv), <<>>)
    IN  /\ procs = s.ps
        /\ transports = <<s.t>>
        /\ servers = <<>>
        /\ ctl = [sender |-> SenderAt("idle", NoReq, 0), stopper |-> [pc |-> "idle"]]
        /\ last = LastNone
        /\ nops = 0

\* Sender: send(request) up to the readline
RSend(mp, useNext) ==
    /\ ctl.sender.pc = "idle" /\ nops < MaxOps
    /\ LET t   == IF useNext THEN TransportNextId(transports[1]) ELSE transports[1]
           req == JsonRpcRequest(mp[1], mp[2],
                                 IF useNext THEN JInt(t.request_id) ELSE JStr("x"))
           w   == SendWrite(t, procs, req)
       IN  /\ transports' = [transports EXCEPT ![1] = t]
           /\ procs' = w.ps
           /\ IF w.raised
              THEN /\ last' = Ended("t.send", "", 1, "NotRunning", req, NoResp, NoValue)
                   /\ ctl' = ctl
              ELSE /\ last' = Ended("t.send", "", 1, "pending", req, NoResp, NoValue)
                   /\ ctl' = [ctl EXCEPT !.sender = SenderAt("reading", req, t.process)]
    /\ nops' = nops + 1
    /\ UNCHANGED servers

\* Sender: stdout.readline() returns a line, which send() decodes and
\* returns, or the empty string at the end of file
RReadline ==
    /\ ctl.sender.pc = "reading"
    /\ LET p  == ctl.sender.proc
           pr == procs[p]
       IN  /\ pr.stdout # <<>> \/ pr.state = "exited"
           /\ IF pr.stdout # <<>>
              THEN /\ procs' = [procs EXCEPT ![p].stdout = Tail(@),
                                             ![p].recv =
                                                 Append(@, from_json(Head(pr.stdout)))]
                   /\ last' = Ended("t.send", "", 1, "ok", ctl.sender.req,
                                    from_json(Head(pr.stdout)), NoValue)
                   /\ ctl' = [ctl EXCEPT !.sender = SenderAt("idle", NoReq, 0)]
              ELSE /\ ctl' = [ctl EXCEPT !.sender.pc = "eof"]
                   /\ UNCHANGED <<procs, last>>
    /\ UNCHANGED <<transports, servers, nops>>

\* Sender: after the empty read, self._process.stderr is evaluated: an
\* AttributeError when self._process is None by now, else "process died"
REof ==
    /\ ctl.sender.pc = "eof"
    /\ LET p == transports[1].process
       IN  last' = IF p = 0
                   THEN Ended("t.send", "", 1, "AttributeError", ctl.sender.req,
                              NoResp, NoValue)
                   ELSE [Ended("t.send", "", 1, "Died", ctl.sender.req,
                               NoResp, NoValue)
                         EXCEPT !.stderr = StderrSlice(procs[p].stderr)]
    /\ ctl' = [ctl EXCEPT !.sender = SenderAt("idle", NoReq, 0)]
    /\ UNCHANGED <<procs, transports, servers, nops>>

\* Stopper: stop() up to the end of wait()/kill(): the child has ended
KTerminate ==
    /\ ctl.stopper.pc = "idle" /\ nops < MaxOps
    /\ LET p == transports[1].process
       IN  IF p # 0
           THEN /\ procs' = [procs EXCEPT ![p] = Killed(procs[p])]
                /\ ctl' = [ctl EXCEPT !.stopper.pc = "clear"]
           ELSE UNCHANGED <<procs, ctl>>
    /\ nops' = nops + 1
    /\ UNCHANGED <<transports, servers, last>>

\* Stopper: self._process = None, and stop() returns
KClear ==
    /\ ctl.stopper.pc = "clear"
    /\ transports' = [transports EXCEPT ![1].process = 0]
    /\ ctl' = [ctl EXCEPT !.stopper.pc = "idle"]
    /\ UNCHANGED <<procs, servers, last, nops>>

\* The handler the worker has invoked never returns
HandlerHangs(p) ==
    /\ procs[p].state = "running" /\ procs[p].pc = "handle"
    /\ procs' = [procs EXCEPT ![p].pc = "hung"]
    /\ UNCHANGED <<transports, servers, ctl, last, nops>>

NextStop ==
    \/ \E mp \in CallerRequests, useNext \in BOOLEAN : RSend(mp, useNext)
    \/ RReadline
    \/ REof
    \/ KTerminate
    \/ KClear
    \/ \E p \in DOMAIN procs : HandlerHangs(p)
    \/ \E p \in DOMAIN procs : LoopRead(p)
    \/ \E p \in DOMAIN procs : LoopHandle(p)

\* Both threads of the controller keep running: a readline that can return
\* returns, and a stop() under way goes on.  Nothing is asked of the worker.
SpecStop ==
    /\ InitStop /\ [][NextStop]_vars
    /\ WF_vars(RReadline) /\ WF_vars(REof) /\ WF_vars(KClear)

----------------------------------------------------------------------------
(* Properties of stop() during send(), checked under SpecStop              *)

\* A send is blocked on a worker whose handler hangs, and stop() has been
\* called from the other thread
StopDuringBlockedSend ==
    /\ ctl.sender.pc = "reading"
    /\ procs[ctl.sender.proc].pc = "hung"
    /\ procs[ctl.sender.proc].stdout = <<>>
    /\ ctl.stopper.pc = "clear"

\* C24: a send blocked on a hung worker while stop() is called from another
\* thread is unblocked in the end and fails with the "process died"
\* transport error, under every interleaving of the two threads.
C24_StopUnblocksSend ==
    StopDuringBlockedSend ~>
        (ctl.sender.pc = "idle" /\ last.op = "t.send" /\ last.outcome = "Died")

----------------------------------------------------------------------------
(* SpecLoopLive: SpecLoop with a worker that keeps running: a line that    *)
(* is there is read, and every handler invocation returns.                 *)

SpecLoopLive == SpecLoop /\ WF_vars(LoopRead(1)) /\ WF_vars(LoopHandle(1))

\* Every non-empty line the loop has read has its response
AllAnswered(pr) ==
    \A k \in 1..Len(pr.readLog) :
        pr.readLog[k].k # "blank" => RespFor(pr, k) # {}

\* C25: once the worker's stdin is closed the dispatch loop ends, and when
\* it has ended every non-empty line it read has its response.
C25_LoopEndsAfterAnswering ==
    /\ procs[1].stdinClosed ~> procs[1].state = "exited"
    /\ []((procs[1].stdinClosed /\ procs[1].state = "exited") =>
              AllAnswered(procs[1]))

----------------------------------------------------------------------------
(* SpecCodec: one request encoded by JsonRpcRequest.to_json and decoded as *)
(* run() decodes a line.  Text is a sequence of characters; "LF" is the    *)
(* newline, "BSL" the backslash, "QUOTE" the double quote.  Here last      *)
(* holds the request, its line and what the worker made of the line, and   *)
(* ctl the step reached.                                                   *)

MaxStr == 2    \* characters of a method name

Chars == {"a", "n", "LF", "BSL", "QUOTE"}

RECURSIVE Texts(_)
Texts(n) ==
    IF n = 0 THEN {<<>>}
    ELSE Texts(n - 1) \cup {Append(s, c) : s \in Texts(n - 1), c \in Chars}

\* Variant of EscapeChar: the backslash is written as it is
EscapeChar_RawBackslash(c) ==
    IF c = "LF" THEN <<"BSL", "n">>
    ELSE IF c = "QUOTE" THEN <<"BSL", "QUOTE">>
    ELSE <<c>>

\* json.dumps of one character inside a string
EscapeChar(c) ==
    IF c = "LF" THEN <<"BSL", "n">>
    ELSE IF c = "BSL" THEN <<"BSL", "BSL">>
    ELSE IF c = "QUOTE" THEN <<"BSL", "QUOTE">>
    ELSE <<c>>

\* json.dumps of a string, without the enclosing quotes
RECURSIVE Escape(_)
Escape(s) == IF s = <<>> THEN <<>> ELSE EscapeChar(Head(s)) \o Escape(Tail(s))

\* json.loads of the inside of a string literal that json.dumps wrote
RECURSIVE Unescape(_)
Unescape(t) ==
    IF t = <<>> THEN <<>>
    ELSE IF Head(t) = "BSL" /\ Len(t) >= 2
    THEN <<IF t[2] = "n" THEN "LF" ELSE t[2]>> \o Unescape(SubSeq(t, 3, Len(t)))
    ELSE <<Head(t)>> \o Unescape(Tail(t))

\* json.dumps and json.loads of an id: an integer is written bare, a string
\* quoted
DumpId(i) == IF i.t = "int" THEN [quoted |-> FALSE, n |-> i.n, body |-> <<>>]
             ELSE [quoted |-> TRUE, n |-> 0, body |-> Escape(i.s)]
LoadId(x) == IF x.quoted THEN [t |-> "str", n |-> 0, s |-> Unescape(x.body)]
             ELSE [t |-> "int", n |-> x.n, s |-> <<>>]

\* json.dumps and json.loads of a dict with string keys and string values,
\* kept as a set of <<key, value>> pairs
DumpDict(d) == {<<Escape(kv[1]), Escape(kv[2])>> : kv \in d}
LoadDict(x) == {<<Unescape(kv[1]), Unescape(kv[2])>> : kv \in x}

\* JsonRpcRequest.to_json at the level of text: the members of the object
RequestText(req) ==
    [jsonrpc |-> <<"2", ".", "0">>,
     method  |-> Escape(req.method),
     params  |-> DumpDict(req.params),
     id      |-> DumpId(req.id)]

\* run(): json.loads(line), request.get("id"), .get("method", ""),
\* .get("params", {})
DecodeLine(line) ==
    [id     |-> LoadId(line.id),
     method |-> Unescape(line.method),
     params |-> LoadDict(line.params)]

\* The characters of the line
LineChars(line) ==
    LET Of(t) == {t[i] : i \in 1..Len(t)}
    IN  Of(line.jsonrpc) \cup Of(line.method) \cup Of(line.id.body)
        \cup UNION {Of(kv[1]) \cup Of(kv[2]) : kv \in line.params}

\* Valid requests: a method string, params with string keys, an integer or
\* string id
ValidRequests ==
    [method : Texts(MaxStr),
     params : {{}} \cup {{<<k, v>>} : k \in Texts(1), v \in Texts(1)},
     id     : {[t |-> "int", n |-> 7, s |-> <<>>]}
              \cup {[t |-> "str", n |-> 0, s |-> s] : s \in Texts(1)}]

NoLine == [jsonrpc |-> <<>>, method |-> <<>>, params |-> {},
           id |-> [quoted |-> FALSE, n |-> 0, body |-> <<>>]]
NoRequest == [method |-> <<>>, params |-> {}, id |-> [t |-> "int", n |-> 0, s |-> <<>>]]

InitCodec ==
    /\ procs = <<>> /\ transports = <<>> /\ servers = <<>> /\ nops = 0
    /\ ctl = [pc |-> "encode"]
    /\ \E r \in ValidRequests :
          last = [req |-> r, line |-> NoLine, got |-> NoRequest]

\* The controller encodes the request: request.to_json()
EncodeRequest ==
    /\ ctl.pc = "encode"
    /\ last' = [last EXCEPT !.line = RequestText(last.req)]
    /\ ctl' = [pc |-> "decode"]
    /\ UNCHANGED <<procs, transports, servers, nops>>

\* The worker decodes the line
DecodeRequest ==
    /\ ctl.pc = "decode"
    /\ last' = [last EXCEPT !.got = DecodeLine(last.line)]
    /\ ctl' = [pc |-> "done"]
    /\ UNCHANGED <<procs, transports, servers, nops>>

NextCodec == EncodeRequest \/ DecodeRequest

SpecCodec == InitCodec /\ [][NextCodec]_vars

----------------------------------------------------------------------------
(* Properties of the encoding, checked under SpecCodec                     *)

\* C26: a valid request encoded by to_json and decoded by the worker has
\* the same id, method and params, and its encoded text holds no newline.
C26_RequestRoundTrip ==
    /\ ctl.pc \in {"decode", "done"} => "LF" \notin LineChars(last.line)
    /\ ctl.pc = "done" => last.got = last.req

\* C26 witness: a request whose method holds a newline and a backslash, with
\* a string id, has been encoded and decoded
C26_Witness ==
    /\ ctl.pc = "done"
    /\ last.req.method = <<"BSL", "LF">>
    /\ last.req.id.t = "str" /\ last.req.id.s = <<"QUOTE">>
    /\ last.req.params # {}
    /\ last.got.method = <<"BSL", "LF">>

----------------------------------------------------------------------------
(* SpecReads: a caller of one ToolServerManager that registers, starts and *)
(* stops servers and reads the manager's state with list_tools,            *)
(* list_servers and is_running.                                            *)

\* What a read accessor leaves behind: the state, whether it raised, and
\* the value it returned
ReadResult(st, raised, value, results) ==
    [ps |-> st.ps, tr |-> st.tr, sv |-> st.sv, raised |-> raised,
     value |-> value, results |-> results]

\* ToolServerManager.list_servers: the dict, in the order of _servers
list_servers(sv, tr, ps) ==
    [i \in 1..Len(sv) |->
        [id |-> sv[i].id,
         running |-> sv[i].transport # 0 /\ is_alive(tr[sv[i].transport], ps)]]

\* Variant of DoListTools: self._servers[server_id] with no check of the key
DoListTools_KeyError(st, sid) ==
    IF IndexOf(st.sv, sid) = 0
    THEN ReadResult(st, TRUE, NoValue, <<>>)
    ELSE ReadResult(st, FALSE, list_tools(st.sv, sid), <<>>)

\* list_tools(sid) as an operation on the manager
DoListTools(st, sid) == ReadResult(st, FALSE, list_tools(st.sv, sid), <<>>)

\* list_servers() as an operation on the manager
DoListServers(st) ==
    ReadResult(st, FALSE, NoValue, list_servers(st.sv, st.tr, st.ps))

\* is_running(sid) as an operation on the manager
DoIsRunning(st, sid) ==
    ReadResult(st, FALSE, NoValue,
               <<[id |-> sid, running |-> is_running(st.sv, st.tr, st.ps, sid)]>>)

\* The caller reads: op is the accessor, r what it left behind
Read(op, sid, r) ==
    /\ CanBegin(0)
    /\ procs' = r.ps /\ transports' = r.tr /\ servers' = r.sv
    /\ last' = [Ended(op, sid, 0, IF r.raised THEN "KeyError" ELSE "ok",
                      NoReq, NoResp, r.value)
                EXCEPT !.results = r.results]
    /\ nops' = nops + 1
    /\ UNCHANGED ctl

ListTools(sid) == Read("list_tools", sid, DoListTools(Now, sid))
ListServers    == Read("list_servers", "", DoListServers(Now))
IsRunning(sid) == Read("is_running", sid, DoIsRunning(Now, sid))

NextReads ==
    \/ \E sid \in Ids, cfg \in ServerConfigs : Register(sid, cfg[1], cfg[2])
    \/ \E sid \in Ids : Start(sid)
    \/ StartReturn
    \/ \E sid \in Ids : Stop(sid)
    \/ \E sid \in Ids : ListTools(sid)
    \/ ListServers
    \/ \E sid \in Ids : IsRunning(sid)
    \/ \E p \in DOMAIN procs : ProcDies(p)
    \/ \E p \in DOMAIN procs : LoopRead(p)
    \/ \E p \in DOMAIN procs : LoopHandle(p)

SpecReads == Init /\ [][NextReads]_vars

----------------------------------------------------------------------------
(* Properties of the read accessors, checked under SpecReads               *)

\* What C27 asks of one step of the caller
C27_Step ==
    /\ (Began("list_tools") \/ Began("list_servers") \/ Began("is_running")) =>
          /\ last'.outcome = "ok"
          /\ UNCHANGED <<procs, transports, servers, ctl>>
    /\ Began("list_servers") =>
          /\ Len(last'.results) = Len(servers)
          /\ \A i \in 1..Len(servers) :
                /\ last'.results[i].id = servers[i].id
                /\ last'.results[i].running =
                       is_running(servers, transports, procs, servers[i].id)

\* C27: list_tools(), list_servers() and is_running() raise nothing for any
\* id, registered or not, and change neither a worker nor a transport nor a
\* registration; list_servers() maps every registered id to what
\* is_running() returns for it.
C27_ReadsArePure == [][C27_Step]_vars

\* C27 witness: list_servers() returned on a manager whose first server is
\* running and whose second is not
C27_Witness ==
    /\ last.op = "list_servers" /\ last.outcome = "ok"
    /\ Len(last.results) = 2
    /\ last.results[1].running /\ ~last.results[2].running

----------------------------------------------------------------------------
(* Properties of the children the manager spawns, checked under Spec       *)

\* The controller's environment with the variables of env laid over it
MergedEnv(env) ==
    {kv \in ControllerEnv : \A o \in env.vars : o[1] # kv[1]} \cup env.vars

\* C28: the environment of a child spawned by start() is the controller's
\* environment merged with the overrides of the registration: an overridden
\* variable has the override's value, every other variable the controller's,
\* with and without overrides.
C28_ChildEnvMerged ==
    \A tid \in DOMAIN transports :
        transports[tid].process # 0 =>
            procs[transports[tid].process].env = MergedEnv(transports[tid].env)

\* A start() that has failed
StartFailed ==
    /\ last.op = "start"
    /\ last.outcome \in {"LaunchError", "Died", "DiscoveryError"}

\* The child spawned by the operation last is about is still running
ChildOfLastAlive ==
    /\ last.tid # 0
    /\ transports[last.tid].process # 0
    /\ procs[transports[last.tid].process].state = "running"

\* C29: after a start(id) that failed (the worker could not be launched,
\* died before answering discovery, or answered tools/list with an error)
\* is_running(id) is false and no child spawned by that start is alive; so
\* every id start_all() maps to an empty list after a failure is reported
\* as not running by list_servers().
C29_FailedStartLeavesNothing ==
    StartFailed =>
        /\ ~is_running(servers, transports, procs, last.sid)
        /\ ~ChildOfLastAlive

\* C30: after stop_all() has returned, whatever register, start, start_all,
\* stop and call operations came before, no child this manager ever spawned
\* is alive and list_servers() maps every registered id to false.
C30_StopAllStopsEverything ==
    (last.op = "stop_all" /\ last.outcome = "ok") =>
        /\ \A p \in DOMAIN procs : procs[p].state # "running"
        /\ \A i \in 1..Len(servers) :
              ~list_servers(servers, transports, procs)[i].running

----------------------------------------------------------------------------
(* Properties of results that cannot be encoded, checked under SpecLoop    *)

\* The k-th line handled reached a handler that returned a value json.dumps
\* cannot encode
UnencodableAt(pr, k) ==
    pr.done[k].called /\ pr.done[k].hout = "unencodable"

\* C31: for a request whose handler returned a value that cannot be encoded
\* the loop wrote exactly one line, an error response with code -32603 and
\* the id of the request, no success line before it, and the loop did not
\* end on that request.
C31_UnencodableResultOneError ==
    \A p \in DOMAIN procs :
        LET pr == procs[p]
        IN  \A k \in 1..Len(pr.done) :
                UnencodableAt(pr, k) =>
                    /\ Cardinality(RespFor(pr, k)) = 1
                    /\ \A j \in RespFor(pr, k) :
                          /\ pr.outLog[j].keys = {"jsonrpc", "id", "error"}
                          /\ pr.outLog[j].error.code = InternalErrorCode
                          /\ pr.outLog[j].id = pr.readLog[k].id
                    /\ ~(k = Len(pr.done) /\ pr.pc = "crashed")

\* C31 witness: a handler returned a value that cannot be encoded, and the
\* worker has answered the request that came after it
C31_Witness ==
    \E k \in 1..Len(procs[1].done) :
        /\ UnencodableAt(procs[1], k)
        /\ RespFor(procs[1], k) # {}
        /\ k + 1 <= Len(procs[1].done)
        /\ procs[1].readLog[k + 1].k = "object"
        /\ RespFor(procs[1], k + 1) # {}

====
